---- MODULE Spec2Model ----
(***************************************************************************)
(* A model of the buffer pool of CMU15445-2024fall:                        *)
(*   src/src/buffer/buffer_pool_manager.cpp   (BufferPoolManager)          *)
(*   src/src/storage/page/page_guard.cpp      (Read/WritePageGuard)        *)
(*   src/src/storage/disk/disk_scheduler.cpp  (DiskScheduler)              *)
(*                                                                         *)
(* Client threads call the manager; one background worker serves the disk  *)
(* queue.  A step of the model is the code between two points at which a   *)
(* thread can block or at which it synchronises: taking the pool latch,    *)
(* future.get(), rwlatch_.lock(), and the unlatched tail of Drop().        *)
(*                                                                         *)
(* The replacer (LRUKReplacer) and the disk manager are not part of the    *)
(* sources; they are modelled from the interface the specification gives   *)
(* (record_access / set_evictable / evict, read_page / write_page).        *)
(*                                                                         *)
(* pin_count_ is a std::atomic<size_t>.  The model keeps it as an integer  *)
(* that stands for its residue modulo 2^64: -1 stands for 2^64 - 1, so     *)
(* the code's "pin_count_ > 0" is "pin_count # 0" here.                    *)
(***************************************************************************)
EXTENDS Integers, Sequences, FiniteSets, TLC

\* ---------------------------------------------------------------- bounds
NumFrames == 1
MaxPage == 2
NumThreads == 2
MaxGuards == 2
MaxByte == 1
MaxSched == 3    \* requests scheduled in the specification of the scheduler

Frames == 0 .. (NumFrames - 1)
Pages == 0 .. (MaxPage - 1)
Threads == 1 .. NumThreads
GuardIds == 1 .. MaxGuards
Bytes == 0 .. MaxByte

NoFrame == -1
NoThread == 0
NoPage == -1

VARIABLES
  page_table,    \* page_table_ : page id -> frame id, NoFrame when absent
  free_frames,   \* free_frames_ : list of frame ids
  next_page_id,  \* next_page_id_
  bpm_latch,     \* *bpm_latch_ : the thread that holds the pool mutex
  data,          \* FrameHeader::data_ per frame
  pin_count,     \* FrameHeader::pin_count_ per frame
  is_dirty,      \* FrameHeader::is_dirty_ per frame
  rwlatch,       \* FrameHeader::rwlatch_ per frame: TRUE when locked
  evictable,     \* the replacer's evictable flag per frame
  disk,          \* the disk manager's contents per page
  request_queue, \* DiskScheduler::request_queue_
  done,          \* per thread: the promise of its request was fulfilled
  pc,            \* per thread: its position
  op,            \* per thread: the call it is in
  page,          \* per thread: the page id argument
  frame,         \* per thread: the local frame id
  evpage,        \* per thread: the local evicted_page_id
  guards,        \* the client's guard objects
  ret,           \* the value returned by the call that ended in the last step
  rt,            \* per page: history of the last bytes written through a guard
  issued,        \* the page ids NewPage has returned so far
  mv,            \* per thread: the guards of the move assignment it is in
  worker,        \* the background thread: its position and its request
  dtor,          \* ~DiskScheduler: "none", "joining" or "done"
  log            \* history of the scheduler: requests scheduled, performed,
                 \* completed, in order

poolVars == <<page_table, free_frames, next_page_id>>
frameVars == <<data, pin_count, is_dirty>>
diskVars == <<disk, request_queue, done>>
threadVars == <<pc, op, page, frame, evpage>>
vars == <<page_table, free_frames, next_page_id, bpm_latch, data, pin_count,
          is_dirty, rwlatch, evictable, disk, request_queue, done,
          pc, op, page, frame, evpage, guards, ret, rt,
          issued, mv, worker, dtor, log>>
schedVars == <<worker, dtor, log>>

NoGuard == [is_valid |-> FALSE, kind |-> "none", page_id |-> NoPage,
            frame |-> NoFrame, owner |-> NoThread, mut |-> FALSE]
NoRet == "none"
NoMove == [src |-> 0, dst |-> 0]
\* the std::nullopt that ~DiskScheduler puts in the queue
Sentinel == [is_write |-> FALSE, frame |-> NoFrame, page_id |-> NoPage,
             t |-> NoThread]
WorkerIdle == [pc |-> "get", req |-> Sentinel]
\* cut: how many requests had been scheduled when the sentinel was queued
NoLog == [sched |-> <<>>, perf |-> <<>>, fired |-> <<>>, cut |-> 0]
NoRt == [st |-> "none", b |-> 0]
RtOff == [st |-> "off", b |-> 0]

\* --------------------------------------------------------------- helpers
\* The history rt[p] of page p, kept only by the specification that follows
\* a page's bytes through eviction (SpecRT): "w" with the bytes b last stored
\* through a guard on p, "e" once p was evicted after that, "none" before
\* the first store and after a delete; "off" when no history is kept.
RtWrite(r, b) == IF r.st = "off" THEN r ELSE [st |-> "w", b |-> b]
RtEvict(r) == IF r.st = "w" THEN [st |-> "e", b |-> r.b] ELSE r
RtDelete(r) == IF r.st = "off" THEN r ELSE NoRt

Resident(p) == page_table[p] # NoFrame

\* the guards that are valid and reference frame f
LiveOn(f) == {g \in GuardIds : guards[g].is_valid /\ guards[g].frame = f}

\* the first client guard object that is not in use
FreeSlot == CHOOSE g \in GuardIds :
              /\ ~guards[g].is_valid
              /\ \A h \in GuardIds : ~guards[h].is_valid => g <= h

\* threads that are inside checked_read_page / checked_write_page
InChecked == {t \in Threads : pc[t] \in {"wait_flush", "wait_read", "ctor"}}

\* the client never asks for more guards than it has guard objects
CanRequest == Cardinality({g \in GuardIds : guards[g].is_valid})
                + Cardinality(InChecked) < MaxGuards

\* FrameHeader::Reset
ResetData(d, f) == [d EXCEPT ![f] = 0]
ResetPin(pc0, f) == [pc0 EXCEPT ![f] = 0]
ResetDirty(dy, f) == [dy EXCEPT ![f] = FALSE]

\* BufferPoolManager::FindPage: the page ids mapped to frame f
FindPage(f) == {p \in Pages : page_table[p] = f}

\* LRUKReplacer::Evict: the frames the replacer may return
EvictCandidates == {f \in Frames : evictable[f]}

\* DiskScheduler::Schedule
Schedule(q, w, f, p, t) ==
  Append(q, [is_write |-> w, frame |-> f, page_id |-> p, t |-> t])

\* BufferPoolManager::AcquireRWLock: TRUE when try_lock succeeds; on failure
\* the pool latch is released
AcquireRWLock(f) == ~rwlatch[f]
LatchAfterAcquire(t, f) == IF AcquireRWLock(f) THEN t ELSE NoThread

\* std::mutex::unlock by a thread that may not own the mutex (the destructor
\* of the unique_lock after AcquireRWLock already released it): undefined;
\* the builds either release the mutex whoever holds it or leave it alone
UnlockOutcomes(t) == IF bpm_latch = t THEN {NoThread} ELSE {NoThread, bpm_latch}

Idle(t) == pc[t] = "idle"
ToIdle(t) ==
  /\ pc' = [pc EXCEPT ![t] = "idle"]
  /\ op' = [op EXCEPT ![t] = "none"]
  /\ page' = [page EXCEPT ![t] = NoPage]
  /\ frame' = [frame EXCEPT ![t] = NoFrame]
  /\ evpage' = [evpage EXCEPT ![t] = NoPage]

\* ------------------------------------------------------------------ Init
\* the state after construction and n calls of NewPage
InitWith(n) ==
  /\ page_table = [p \in Pages |-> NoFrame]
  /\ free_frames = [i \in 1 .. NumFrames |-> i - 1]
  /\ next_page_id = n
  /\ bpm_latch = NoThread
  /\ data = [f \in Frames |-> 0]
  /\ pin_count = [f \in Frames |-> 0]
  /\ is_dirty = [f \in Frames |-> FALSE]
  /\ rwlatch = [f \in Frames |-> FALSE]
  /\ evictable = [f \in Frames |-> FALSE]
  /\ disk = [p \in Pages |-> 0]
  /\ request_queue = <<>>
  /\ done = [t \in Threads |-> FALSE]
  /\ pc = [t \in Threads |-> "idle"]
  /\ op = [t \in Threads |-> "none"]
  /\ page = [t \in Threads |-> NoPage]
  /\ frame = [t \in Threads |-> NoFrame]
  /\ evpage = [t \in Threads |-> NoPage]
  /\ guards = [g \in GuardIds |-> NoGuard]
  /\ ret = NoRet
  /\ issued = 0 .. (n - 1)
  /\ mv = [t \in Threads |-> NoMove]
  /\ worker = WorkerIdle
  /\ dtor = "none"
  /\ log = NoLog

InitProgram == InitWith(0)

Init ==
  /\ rt = [p \in Pages |-> RtOff]
  /\ InitProgram

\* --------------------------------------------------------------- NewPage
\* NewPage up to "new_page_id = next_page_id_": the pool latch is taken and
\* the counter is read into the local
NewPage(t) ==
  /\ Idle(t)
  /\ bpm_latch = NoThread
  /\ next_page_id < MaxPage
  /\ bpm_latch' = t
  /\ pc' = [pc EXCEPT ![t] = "np"]
  /\ op' = [op EXCEPT ![t] = "new"]
  /\ page' = [page EXCEPT ![t] = next_page_id]
  /\ ret' = NoRet
  /\ UNCHANGED <<poolVars, frameVars, rwlatch, evictable, diskVars, frame,
                 evpage, guards, rt>>
  /\ UNCHANGED <<issued, mv, schedVars>>

\* NewPage from next_page_id_.fetch_add(1) to the return of the local; the
\* scoped_lock releases the pool latch
NewPageFetchAdd(t) ==
  /\ pc[t] = "np"
  /\ next_page_id' = next_page_id + 1
  /\ issued' = issued \cup {page[t]}
  /\ bpm_latch' \in UnlockOutcomes(t)
  /\ ret' = "id"
  /\ ToIdle(t)
  /\ UNCHANGED <<page_table, free_frames, frameVars, rwlatch, evictable,
                 diskVars, guards, rt>>
  /\ UNCHANGED <<mv, schedVars>>

\* ------------------------------------- CheckedReadPage / CheckedWritePage
\* k is "r" (CheckedReadPage) or "w" (CheckedWritePage); the two bodies are
\* the same up to the guard they construct.

\* a lookup whose hit would fall through to the cases of a missing page
Missing_Always(p) == p \in Pages

\* cases 2 and 3 are reached only when page_table_.find(page_id) found no
\* entry: case 1 returns
Missing(p) == ~Resident(p)

\* case 1: the page is in the page table
CheckedHit(t, k, p) ==
  LET f == page_table[p] IN
  /\ Resident(p)
  /\ bpm_latch' = LatchAfterAcquire(t, f)
  /\ pc' = [pc EXCEPT ![t] = "ctor"]
  /\ op' = [op EXCEPT ![t] = k]
  /\ page' = [page EXCEPT ![t] = p]
  /\ frame' = [frame EXCEPT ![t] = f]
  /\ ret' = NoRet
  /\ UNCHANGED <<poolVars, frameVars, rwlatch, evictable, diskVars, evpage,
                 guards, rt>>

\* case 2: the page is absent and a frame is free
CheckedFree(t, k, p) ==
  LET f == Head(free_frames) IN
  /\ Missing(p)
  /\ free_frames # <<>>
  /\ free_frames' = Tail(free_frames)
  /\ page_table' = [page_table EXCEPT ![p] = f]
  /\ request_queue' = Schedule(request_queue, FALSE, f, p, t)
  /\ done' = [done EXCEPT ![t] = FALSE]
  /\ bpm_latch' = t
  /\ pc' = [pc EXCEPT ![t] = "wait_read"]
  /\ op' = [op EXCEPT ![t] = k]
  /\ page' = [page EXCEPT ![t] = p]
  /\ frame' = [frame EXCEPT ![t] = f]
  /\ ret' = NoRet
  /\ UNCHANGED <<next_page_id, frameVars, rwlatch, evictable, disk,
                 evpage, guards, rt>>

\* case 3, Evict() has no value: out of memory
CheckedNone(t, k, p) ==
  /\ Missing(p)
  /\ free_frames = <<>>
  /\ EvictCandidates = {}
  /\ ret' = "nullopt"
  /\ UNCHANGED <<poolVars, bpm_latch, frameVars, rwlatch, evictable, diskVars,
                 threadVars, guards, rt>>

\* an eviction that would leave the victim's entry in the page table
InstallEntry_KeepVictim(pt, ep, p, f) == [pt EXCEPT ![p] = f]

\* case 3: page_table_.erase(evicted_page_id); page_table_[page_id] = frame
InstallEntry(pt, ep, p, f) == [pt EXCEPT ![ep] = NoFrame, ![p] = f]

\* the tail of case 3 once the victim is written back (or was clean):
\* Reset, erase the victim's entry, insert the new one, schedule the read
EvictInstall(t, p, f, ep) ==
  /\ data' = ResetData(data, f)
  /\ pin_count' = ResetPin(pin_count, f)
  /\ is_dirty' = ResetDirty(is_dirty, f)
  /\ page_table' = InstallEntry(page_table, ep, p, f)
  /\ request_queue' = Schedule(request_queue, FALSE, f, p, t)
  /\ done' = [done EXCEPT ![t] = FALSE]
  /\ pc' = [pc EXCEPT ![t] = "wait_read"]
  /\ rt' = [rt EXCEPT ![ep] = RtEvict(@)]

\* case 3, Evict() returns frame f
CheckedEvict(t, k, p) ==
  /\ Missing(p)
  /\ free_frames = <<>>
  /\ \E f \in EvictCandidates :
       /\ evictable' = [evictable EXCEPT ![f] = FALSE]
       /\ IF FindPage(f) = {}
          THEN \* FindPage(...).value() throws std::bad_optional_access
               /\ ret' = "throw"
               /\ UNCHANGED <<poolVars, bpm_latch, frameVars, rwlatch,
                              diskVars, threadVars, guards, rt>>
          ELSE \E ep \in FindPage(f) :
               /\ bpm_latch' = t
               /\ op' = [op EXCEPT ![t] = k]
               /\ page' = [page EXCEPT ![t] = p]
               /\ frame' = [frame EXCEPT ![t] = f]
               /\ evpage' = [evpage EXCEPT ![t] = ep]
               /\ ret' = NoRet
               /\ IF is_dirty[f]
                  THEN \* FlushPage(evicted_page_id) schedules the write
                       /\ request_queue' = Schedule(request_queue, TRUE, f, ep, t)
                       /\ done' = [done EXCEPT ![t] = FALSE]
                       /\ pc' = [pc EXCEPT ![t] = "wait_flush"]
                       /\ UNCHANGED <<page_table, frameVars, rt>>
                  ELSE EvictInstall(t, p, f, ep)
               /\ UNCHANGED <<free_frames, next_page_id, rwlatch, disk,
                              guards>>

CheckedPageBegin(t, k, p) ==
  /\ Idle(t)
  /\ bpm_latch = NoThread
  /\ p < next_page_id
  /\ CanRequest
  /\ \/ CheckedHit(t, k, p)
     \/ CheckedFree(t, k, p)
     \/ CheckedNone(t, k, p)
     \/ CheckedEvict(t, k, p)
  /\ UNCHANGED <<issued, mv, schedVars>>

\* case 3 after future1.get() inside FlushPage(evicted_page_id)
EvictFlushDone(t) ==
  /\ pc[t] = "wait_flush"
  /\ done[t]
  /\ EvictInstall(t, page[t], frame[t], evpage[t])
  /\ ret' = NoRet
  /\ UNCHANGED <<free_frames, next_page_id, bpm_latch, rwlatch, evictable,
                 disk, op, page, frame, evpage, guards>>
  /\ UNCHANGED <<issued, mv, schedVars>>

\* cases 2 and 3 after future1.get() of the read: AcquireRWLock
ReadDone(t) ==
  /\ pc[t] = "wait_read"
  /\ done[t]
  /\ bpm_latch' \in (IF AcquireRWLock(frame[t]) THEN {bpm_latch}
                     ELSE UnlockOutcomes(t))
  /\ pc' = [pc EXCEPT ![t] = "ctor"]
  /\ done' = [done EXCEPT ![t] = FALSE]
  /\ ret' = NoRet
  /\ UNCHANGED <<poolVars, frameVars, rwlatch, evictable, disk, request_queue,
                 op, page, frame, evpage, guards, rt>>
  /\ UNCHANGED <<issued, mv, schedVars>>

\* ReadPageGuard::ReadPageGuard / WritePageGuard::WritePageGuard: only the
\* read guard tells the replacer that the frame is not evictable
CtorEvictable(k, f) == IF k = "r" THEN [evictable EXCEPT ![f] = FALSE]
                       ELSE evictable

\* a constructor that would not wait for the frame latch
RwLatchFree_NoWait(f) == f \in Frames

\* rwlatch_.lock() in both guard constructors returns once nobody holds the
\* frame latch
RwLatchFree(f) == ~rwlatch[f]

\* the guard constructor, then the return, where the unique_lock's
\* destructor unlocks the pool latch
GuardCtor(t) ==
  LET f == frame[t] IN
  /\ pc[t] = "ctor"
  /\ RwLatchFree(f)
  /\ rwlatch' = [rwlatch EXCEPT ![f] = TRUE]
  /\ pin_count' = [pin_count EXCEPT ![f] = @ + 1]
  /\ evictable' = CtorEvictable(op[t], f)
  /\ guards' = [guards EXCEPT ![FreeSlot] =
                  [is_valid |-> TRUE, kind |-> op[t], page_id |-> page[t],
                   frame |-> f, owner |-> t, mut |-> FALSE]]
  /\ bpm_latch' \in UnlockOutcomes(t)
  /\ ret' = "guard"
  /\ ToIdle(t)
  /\ UNCHANGED <<poolVars, data, is_dirty, diskVars, rt>>
  /\ UNCHANGED <<issued, mv, schedVars>>

\* ------------------------------------------------------------ page guards
OwnedLive(t, g) == guards[g].is_valid /\ guards[g].owner = t

\* a move that would leave the source valid
Transfer_Copy(gs, src, dst) == [gs EXCEPT ![dst] = gs[src]]

\* the body of the move constructor and of the move assignment after its
\* Drop: the fields go to dst, the source is invalidated
Transfer(gs, src, dst) == [gs EXCEPT ![dst] = gs[src], ![src] = NoGuard]

\* the guards once the Drop of thread t has returned: a Drop called by a move
\* assignment is followed by the transfer
AfterDrop(t) == IF mv[t] = NoMove THEN guards
                ELSE Transfer(guards, mv[t].src, mv[t].dst)
RetAfterDrop(t) == IF mv[t] = NoMove THEN NoRet ELSE "assigned"

\* Drop: "frame_->pin_count_ == 0"
DropSeesZero(f) == pin_count[f] = 0

\* a Drop that would take the pool latch first
DropMayRun_Latched(t) == bpm_latch = NoThread

\* Drop takes no pool latch (its lock_guard is commented out): it runs
\* whether the pool latch is free or held, by this thread or another
DropMayRun(t) == bpm_latch \in Threads \cup {NoThread}

\* Read/WritePageGuard::Drop up to "frame_->pin_count_--": the latch is
\* released, the guard invalidated, the pin count decremented
DropBegin(t, g) ==
  LET f == guards[g].frame IN
  /\ Idle(t)
  /\ DropMayRun(t)
  /\ OwnedLive(t, g)
  /\ rwlatch' = [rwlatch EXCEPT ![f] = FALSE]
  /\ guards' = [guards EXCEPT ![g] = NoGuard]
  /\ pin_count' = [pin_count EXCEPT ![f] = @ - 1]
  /\ pc' = [pc EXCEPT ![t] = "drop_test"]
  /\ frame' = [frame EXCEPT ![t] = f]
  /\ ret' = NoRet
  /\ UNCHANGED <<poolVars, bpm_latch, data, is_dirty, evictable, diskVars,
                 op, page, evpage, rt>>
  /\ UNCHANGED <<issued, mv, schedVars>>

\* Drop: "if (frame_->pin_count_ == 0)", a second read of the atomic
DropTest(t) ==
  /\ pc[t] = "drop_test"
  /\ IF DropSeesZero(frame[t])
     THEN /\ pc' = [pc EXCEPT ![t] = "drop_se"]
          /\ ret' = NoRet
          /\ UNCHANGED <<op, page, frame, evpage, guards, mv>>
     ELSE /\ ToIdle(t)
          /\ guards' = AfterDrop(t)
          /\ mv' = [mv EXCEPT ![t] = NoMove]
          /\ ret' = RetAfterDrop(t)
  /\ UNCHANGED <<poolVars, bpm_latch, frameVars, rwlatch, evictable, diskVars,
                 rt>>
  /\ UNCHANGED <<issued, schedVars>>

\* Drop when the pin count was seen to be 0: replacer_->SetEvictable(f, true)
DropSetEvictable(t) ==
  /\ pc[t] = "drop_se"
  /\ evictable' = [evictable EXCEPT ![frame[t]] = TRUE]
  /\ ToIdle(t)
  /\ guards' = AfterDrop(t)
  /\ mv' = [mv EXCEPT ![t] = NoMove]
  /\ ret' = RetAfterDrop(t)
  /\ UNCHANGED <<poolVars, bpm_latch, frameVars, rwlatch, diskVars, rt>>
  /\ UNCHANGED <<issued, schedVars>>

\* Drop of a guard that is not valid (dropped before, moved from, or the
\* implicit Drop of the destructor): "if (is_valid_)" fails
DropInvalid(t, g) ==
  /\ Idle(t)
  /\ ~guards[g].is_valid
  /\ ret' = "drop_noop"
  /\ UNCHANGED <<poolVars, bpm_latch, frameVars, rwlatch, evictable, diskVars,
                 threadVars, guards, rt, issued, mv, schedVars>>

\* the guards thread t may hand to a move: its own, or invalid ones
Movable(t, g) == guards[g].is_valid => guards[g].owner = t

\* ReadPageGuard(ReadPageGuard &&that) / WritePageGuard(WritePageGuard &&that):
\* dst is the object under construction
MoveCtor(t, src, dst) ==
  /\ Idle(t)
  /\ src # dst
  /\ Movable(t, src)
  /\ ~guards[dst].is_valid
  /\ guards' = Transfer(guards, src, dst)
  /\ ret' = "moved"
  /\ UNCHANGED <<poolVars, bpm_latch, frameVars, rwlatch, evictable, diskVars,
                 threadVars, rt, issued, mv, schedVars>>

\* operator=(that): "if (this != &that)", this->Drop() up to its decrement
\* when this guard is valid, else straight to the transfer
MoveAssign(t, src, dst) ==
  LET f == guards[dst].frame IN
  /\ Idle(t)
  /\ Movable(t, src)
  /\ Movable(t, dst)
  /\ IF src = dst
     THEN /\ ret' = "assigned"
          /\ UNCHANGED <<guards, pin_count, rwlatch, pc, frame, mv>>
     ELSE IF guards[dst].is_valid
     THEN /\ rwlatch' = [rwlatch EXCEPT ![f] = FALSE]
          /\ guards' = [guards EXCEPT ![dst] = NoGuard]
          /\ pin_count' = [pin_count EXCEPT ![f] = @ - 1]
          /\ pc' = [pc EXCEPT ![t] = "drop_test"]
          /\ frame' = [frame EXCEPT ![t] = f]
          /\ mv' = [mv EXCEPT ![t] = [src |-> src, dst |-> dst]]
          /\ ret' = NoRet
     ELSE /\ guards' = Transfer(guards, src, dst)
          /\ ret' = "assigned"
          /\ UNCHANGED <<pin_count, rwlatch, pc, frame, mv>>
  /\ UNCHANGED <<poolVars, bpm_latch, data, is_dirty, evictable, diskVars,
                 op, page, evpage, rt, issued, schedVars>>

\* WritePageGuard::GetDataMut: marks the frame dirty and hands out the pointer
GetDataMut(t, g) ==
  /\ Idle(t)
  /\ OwnedLive(t, g)
  /\ guards[g].kind = "w"
  /\ ~guards[g].mut
  /\ is_dirty' = [is_dirty EXCEPT ![guards[g].frame] = TRUE]
  /\ guards' = [guards EXCEPT ![g].mut = TRUE]
  /\ ret' = NoRet
  /\ UNCHANGED <<poolVars, bpm_latch, data, pin_count, rwlatch, evictable,
                 diskVars, threadVars, rt>>
  /\ UNCHANGED <<issued, mv, schedVars>>

\* the holder of a write guard stores bytes b through the pointer it got
\* (b is never the zero fill of FrameHeader::Reset)
Mutate(t, g, b) ==
  /\ Idle(t)
  /\ OwnedLive(t, g)
  /\ guards[g].mut
  /\ data' = [data EXCEPT ![guards[g].frame] = b]
  /\ rt' = [rt EXCEPT ![guards[g].page_id] = RtWrite(@, b)]
  /\ ret' = NoRet
  /\ UNCHANGED <<poolVars, bpm_latch, pin_count, is_dirty, rwlatch, evictable,
                 diskVars, threadVars, guards>>
  /\ UNCHANGED <<issued, mv, schedVars>>

\* a FlushPage that would write a resident page whether dirty or not
FlushNeeded_AnyResident(pt, p) == pt[p] # NoFrame

\* -------------------------------------------------------------- FlushPage
\* FlushPage gets past its two early returns: the page is in the page table
\* pt and its frame is dirty
FlushNeeded(pt, p) == pt[p] # NoFrame /\ is_dirty[pt[p]]

\* FlushPage called by a client (it takes no latch), up to future1.get()
FlushPageBegin(t, p) ==
  /\ Idle(t)
  /\ p < next_page_id
  /\ IF FlushNeeded(page_table, p)
     THEN /\ request_queue' = Schedule(request_queue, TRUE, page_table[p], p, t)
          /\ done' = [done EXCEPT ![t] = FALSE]
          /\ pc' = [pc EXCEPT ![t] = "fl_wait"]
          /\ op' = [op EXCEPT ![t] = "flush"]
          /\ page' = [page EXCEPT ![t] = p]
          /\ frame' = [frame EXCEPT ![t] = page_table[p]]
          /\ ret' = NoRet
          /\ UNCHANGED evpage
     ELSE /\ ret' = "flush_false"
          /\ UNCHANGED <<request_queue, done, threadVars>>
  /\ UNCHANGED <<poolVars, bpm_latch, frameVars, rwlatch, evictable, disk,
                 guards, rt>>
  /\ UNCHANGED <<issued, mv, schedVars>>

\* FlushPage after future1.get(): the dirty flag is cleared
FlushPageEnd(t) ==
  /\ pc[t] = "fl_wait"
  /\ done[t]
  /\ is_dirty' = ResetDirty(is_dirty, frame[t])
  /\ done' = [done EXCEPT ![t] = FALSE]
  /\ ret' = "flush_true"
  /\ ToIdle(t)
  /\ UNCHANGED <<poolVars, bpm_latch, data, pin_count, rwlatch, evictable,
                 disk, request_queue, guards, rt>>
  /\ UNCHANGED <<issued, mv, schedVars>>

\* ------------------------------------------------------------- DeletePage
DeletePage(t, p) ==
  LET f == page_table[p]
      erased == [page_table EXCEPT ![p] = NoFrame] IN
  /\ Idle(t)
  /\ bpm_latch = NoThread
  /\ p < next_page_id
  /\ IF ~Resident(p)
     THEN /\ ret' = "delete_true"
          /\ UNCHANGED <<page_table, free_frames, frameVars, rt>>
     ELSE IF pin_count[f] # 0
     THEN /\ ret' = "delete_false"
          /\ UNCHANGED <<page_table, free_frames, frameVars, rt>>
     ELSE /\ page_table' = erased
          /\ free_frames' = Append(free_frames, f)
          \* "if (is_dirty_) FlushPage(page_id)" runs after the erase, so
          \* FlushPage finds no entry and returns at once
          /\ ~FlushNeeded(erased, p)
          /\ data' = ResetData(data, f)
          /\ pin_count' = ResetPin(pin_count, f)
          /\ is_dirty' = ResetDirty(is_dirty, f)
          /\ rt' = [rt EXCEPT ![p] = RtDelete(@)]
          /\ ret' = "delete_true"
  /\ UNCHANGED <<next_page_id, bpm_latch, rwlatch, evictable, diskVars,
                 threadVars, guards>>
  /\ UNCHANGED <<issued, mv, schedVars>>

\* ---------------------------------------------------------- DiskScheduler
\* StartWorkerThread, one turn of the loop: Get() the head of the queue,
\* WritePage / ReadPage on the request's buffer (which is the frame's own
\* data_), then callback_.set_value(true).  The three are one step: between
\* them the worker touches nothing another thread reads.
WorkerStep ==
  LET r == Head(request_queue) IN
  /\ request_queue # <<>>
  /\ request_queue' = Tail(request_queue)
  /\ IF r.is_write
     THEN /\ disk' = [disk EXCEPT ![r.page_id] = data[r.frame]]
          /\ UNCHANGED data
     ELSE /\ data' = [data EXCEPT ![r.frame] = disk[r.page_id]]
          /\ UNCHANGED disk
  /\ done' = [done EXCEPT ![r.t] = TRUE]
  /\ ret' = NoRet
  /\ UNCHANGED <<poolVars, bpm_latch, pin_count, is_dirty, rwlatch, evictable,
                 threadVars, guards, rt>>
  /\ UNCHANGED <<issued, mv, schedVars>>

\* ------------------------------------------- DiskScheduler, step by step
\* The same scheduler with the worker's loop taken apart (Get, the disk
\* operation, set_value) and with its destructor, driven by clients that
\* call Schedule directly and wait for the future (as every caller in the
\* buffer pool manager does).

\* a worker that would take the newest request
WorkerServes_Newest(q) == q[Len(q)]

\* request_queue_.Get(): the request at the front of the channel
WorkerServes(q) == Head(q)

\* the queue without its element number i
QueueWithout(q, i) == SubSeq(q, 1, i - 1) \o SubSeq(q, i + 1, Len(q))
QueueAfterGet(q) ==
  QueueWithout(q, CHOOSE i \in 1 .. Len(q) : q[i] = WorkerServes(q))

\* a client fills its buffer (frame f's bytes, b) for a write, calls
\* Schedule and goes on to future.get()
SchedClient(t, w, p, f, b) ==
  LET r == [is_write |-> w, frame |-> f, page_id |-> p, t |-> t] IN
  /\ Idle(t)
  /\ Len(log.sched) < MaxSched
  /\ data' = IF w THEN [data EXCEPT ![f] = b] ELSE data
  /\ request_queue' = Schedule(request_queue, w, f, p, t)
  /\ done' = [done EXCEPT ![t] = FALSE]
  /\ pc' = [pc EXCEPT ![t] = "sched_wait"]
  /\ log' = [log EXCEPT !.sched = Append(@, r)]
  /\ ret' = NoRet
  /\ UNCHANGED <<poolVars, bpm_latch, pin_count, is_dirty, rwlatch, evictable,
                 disk, op, page, frame, evpage, guards, rt, issued, mv,
                 worker, dtor>>

\* future.get() returns
ClientGet(t) ==
  /\ pc[t] = "sched_wait"
  /\ done[t]
  /\ done' = [done EXCEPT ![t] = FALSE]
  /\ pc' = [pc EXCEPT ![t] = "idle"]
  /\ ret' = NoRet
  /\ UNCHANGED <<poolVars, bpm_latch, frameVars, rwlatch, evictable, disk,
                 request_queue, op, page, frame, evpage, guards, rt, issued,
                 mv, schedVars>>

\* a worker that would leave its loop on any request
IsStop_Always(r) == r.t \in Threads \cup {NoThread}

\* StartWorkerThread: "if (!request.has_value()) break"
IsStop(r) == r = Sentinel

\* StartWorkerThread: request_queue_.Get(), and the break on std::nullopt
WorkerGet ==
  LET r == WorkerServes(request_queue) IN
  /\ worker.pc = "get"
  /\ request_queue # <<>>
  /\ request_queue' = QueueAfterGet(request_queue)
  /\ worker' = IF IsStop(r) THEN [pc |-> "exited", req |-> Sentinel]
               ELSE [pc |-> "io", req |-> r]
  /\ ret' = NoRet
  /\ UNCHANGED <<poolVars, bpm_latch, frameVars, rwlatch, evictable, disk,
                 done, threadVars, guards, rt, issued, mv, dtor, log>>

\* StartWorkerThread: disk_manager_->WritePage / ReadPage
WorkerIO ==
  LET r == worker.req IN
  /\ worker.pc = "io"
  /\ IF r.is_write
     THEN /\ disk' = [disk EXCEPT ![r.page_id] = data[r.frame]]
          /\ UNCHANGED data
     ELSE /\ data' = [data EXCEPT ![r.frame] = disk[r.page_id]]
          /\ UNCHANGED disk
  /\ worker' = [worker EXCEPT !.pc = "set"]
  /\ log' = [log EXCEPT !.perf = Append(@, r)]
  /\ ret' = NoRet
  /\ UNCHANGED <<poolVars, bpm_latch, pin_count, is_dirty, rwlatch, evictable,
                 request_queue, done, threadVars, guards, rt, issued, mv, dtor>>

\* StartWorkerThread: request_value.callback_.set_value(true)
WorkerSet ==
  LET r == worker.req IN
  /\ worker.pc = "set"
  /\ done' = [done EXCEPT ![r.t] = TRUE]
  /\ worker' = WorkerIdle
  /\ log' = [log EXCEPT !.fired = Append(@, r)]
  /\ ret' = NoRet
  /\ UNCHANGED <<poolVars, bpm_latch, frameVars, rwlatch, evictable, disk,
                 request_queue, threadVars, guards, rt, issued, mv, dtor>>

\* ~DiskScheduler: request_queue_.Put(std::nullopt)
DtorBegin ==
  /\ dtor = "none"
  /\ request_queue' = Append(request_queue, Sentinel)
  /\ dtor' = "joining"
  /\ log' = [log EXCEPT !.cut = Len(log.sched)]
  /\ ret' = NoRet
  /\ UNCHANGED <<poolVars, bpm_latch, frameVars, rwlatch, evictable, disk,
                 done, threadVars, guards, rt, issued, mv, worker>>

\* ~DiskScheduler: background_thread_->join() returns
DtorJoin ==
  /\ dtor = "joining"
  /\ worker.pc = "exited"
  /\ dtor' = "done"
  /\ ret' = NoRet
  /\ UNCHANGED <<poolVars, bpm_latch, frameVars, rwlatch, evictable, diskVars,
                 threadVars, guards, rt, issued, mv, worker, log>>

NextSched ==
  \/ \E t \in Threads, w \in BOOLEAN, p \in Pages, f \in Frames,
        b \in 1 .. MaxByte : SchedClient(t, w, p, f, b)
  \/ \E t \in Threads : ClientGet(t)
  \/ WorkerGet
  \/ WorkerIO
  \/ WorkerSet
  \/ DtorBegin
  \/ DtorJoin

SpecSched == Init /\ [][NextSched]_vars

\* the worker is a running thread, and so is the thread inside join()
SpecSchedFair ==
  /\ SpecSched
  /\ WF_vars(WorkerGet) /\ WF_vars(WorkerIO) /\ WF_vars(WorkerSet)
  /\ WF_vars(DtorJoin)

\* ------------------------------------------------------------------- Next
Next ==
  \/ \E t \in Threads : NewPage(t)
  \/ \E t \in Threads : NewPageFetchAdd(t)
  \/ \E t \in Threads, k \in {"r", "w"}, p \in Pages : CheckedPageBegin(t, k, p)
  \/ \E t \in Threads : EvictFlushDone(t)
  \/ \E t \in Threads : ReadDone(t)
  \/ \E t \in Threads : GuardCtor(t)
  \/ \E t \in Threads, g \in GuardIds : DropBegin(t, g)
  \/ \E t \in Threads : DropTest(t)
  \/ \E t \in Threads : DropSetEvictable(t)
  \/ \E t \in Threads, g \in GuardIds : GetDataMut(t, g)
  \/ \E t \in Threads, g \in GuardIds, b \in 1 .. MaxByte : Mutate(t, g, b)
  \/ \E t \in Threads, p \in Pages : FlushPageBegin(t, p)
  \/ \E t \in Threads : FlushPageEnd(t)
  \/ \E t \in Threads, p \in Pages : DeletePage(t, p)
  \/ WorkerStep

Spec == Init /\ [][Next]_vars

\* the operations that neither create nor delete a page
NextLive ==
  \/ \E t \in Threads, k \in {"r", "w"}, p \in Pages : CheckedPageBegin(t, k, p)
  \/ \E t \in Threads : EvictFlushDone(t)
  \/ \E t \in Threads : ReadDone(t)
  \/ \E t \in Threads : GuardCtor(t)
  \/ \E t \in Threads, g \in GuardIds : DropBegin(t, g)
  \/ \E t \in Threads : DropTest(t)
  \/ \E t \in Threads : DropSetEvictable(t)
  \/ \E t \in Threads, g \in GuardIds : GetDataMut(t, g)
  \/ \E t \in Threads, g \in GuardIds, b \in 1 .. MaxByte : Mutate(t, g, b)
  \/ \E t \in Threads, p \in Pages : FlushPageBegin(t, p)
  \/ \E t \in Threads : FlushPageEnd(t)
  \/ WorkerStep

\* every page id handed out, no history of written bytes kept
InitGuard ==
  /\ rt = [p \in Pages |-> RtOff]
  /\ InitWith(MaxPage)

\* a client that asks for a page only while it holds no guard
HoldsNoGuard(t) == \A g \in GuardIds : ~OwnedLive(t, g)

\* the calls of such clients, every page id handed out: they get guards,
\* mark them dirty, drop them, flush and delete pages
NextAcq ==
  \/ \E t \in Threads, k \in {"r", "w"}, p \in Pages :
       HoldsNoGuard(t) /\ CheckedPageBegin(t, k, p)
  \/ \E t \in Threads : EvictFlushDone(t)
  \/ \E t \in Threads : ReadDone(t)
  \/ \E t \in Threads : GuardCtor(t)
  \/ \E t \in Threads, g \in GuardIds : DropBegin(t, g)
  \/ \E t \in Threads : DropTest(t)
  \/ \E t \in Threads : DropSetEvictable(t)
  \/ \E t \in Threads, g \in GuardIds : GetDataMut(t, g)
  \/ \E t \in Threads, p \in Pages : FlushPageBegin(t, p)
  \/ \E t \in Threads : FlushPageEnd(t)
  \/ \E t \in Threads, p \in Pages : DeletePage(t, p)
  \/ WorkerStep

\* Fair scheduling: the worker and every thread inside a call keep running,
\* a thread blocked in rwlatch_.lock() gets the latch if it is free again
\* and again, and a client that holds a guard drops it.
FairAcq ==
  /\ WF_vars(WorkerStep)
  /\ \A t \in Threads :
       /\ SF_vars(GuardCtor(t))
       /\ WF_vars(EvictFlushDone(t))
       /\ WF_vars(ReadDone(t))
       /\ WF_vars(DropTest(t))
       /\ WF_vars(DropSetEvictable(t))
       /\ WF_vars(FlushPageEnd(t))
       /\ WF_vars(\E g \in GuardIds : DropBegin(t, g))
SpecAcq == InitGuard /\ [][NextAcq]_vars
SpecAcqFair == SpecAcq /\ FairAcq

\* the program once NewPage has handed out every page id, no page being
\* deleted, with the history of written bytes kept
InitRT ==
  /\ rt = [p \in Pages |-> NoRt]
  /\ InitWith(MaxPage)
SpecRT == InitRT /\ [][NextLive]_vars

\* the same operations with the guards' moves and the Drop of invalid guards
NextGuard ==
  \/ NextLive
  \/ \E t \in Threads, g \in GuardIds : DropInvalid(t, g)
  \/ \E t \in Threads, src, dst \in GuardIds : MoveCtor(t, src, dst)
  \/ \E t \in Threads, src, dst \in GuardIds : MoveAssign(t, src, dst)
SpecGuard == InitGuard /\ [][NextGuard]_vars

\* ================================================================ claims

\* thread t takes frame f as a victim in this step (case 3 of
\* CheckedReadPage / CheckedWritePage: the free list is empty and Evict()
\* returned f)
TakesVictim(t, f) ==
  /\ pc[t] = "idle"
  /\ pc'[t] \in {"wait_flush", "wait_read"}
  /\ free_frames = <<>>
  /\ frame'[t] = f

\* C1: whenever CheckedReadPage / CheckedWritePage takes a victim frame from
\* the replacer, no live guard references that frame and its pin count is 0.
C1_NeverEvictsPinned ==
  [][\A t \in Threads, f \in Frames :
       TakesVictim(t, f) => LiveOn(f) = {} /\ pin_count[f] = 0]_vars

\* C2: in every state, a frame with a positive pin count is not evictable
\* in the replacer.
C2_PinnedNotEvictable ==
  \A f \in Frames : pin_count[f] > 0 => ~evictable[f]

\* BufferPoolManager::GetPinCount
GetPinCount(p) == IF Resident(p) THEN pin_count[page_table[p]] ELSE -1

\* C3: in every state, each frame's pin count is the number of live guards
\* that reference the frame (so it is never negative), and GetPinCount of a
\* resident page is the number of live guards on its frame.
C3_PinCountIsLiveGuards ==
  /\ \A f \in Frames : pin_count[f] = Cardinality(LiveOn(f))
  /\ \A p \in Pages :
       Resident(p) => GetPinCount(p) = Cardinality(LiveOn(page_table[p]))

\* C4: in every state, a live write guard is the only live guard on its
\* frame.
C4_WriteGuardExclusive ==
  \A g \in GuardIds :
    (guards[g].is_valid /\ guards[g].kind = "w") => LiveOn(guards[g].frame) = {g}

\* C4 witness: a write guard is live and another thread has reached the
\* constructor of a guard on the same frame, where it waits.
C4_Witness ==
  \E g \in GuardIds, t \in Threads :
    /\ guards[g].is_valid /\ guards[g].kind = "w"
    /\ pc[t] = "ctor" /\ frame[t] = guards[g].frame

\* C5: a CheckedReadPage that has reached the guard constructor while only
\* read guards are live on the frame gets its guard without waiting for
\* them: the constructor can run.
C5_ReadersDoNotWait ==
  \A t \in Threads :
    (/\ pc[t] = "ctor" /\ op[t] = "r"
     /\ LiveOn(frame[t]) # {}
     /\ \A g \in LiveOn(frame[t]) : guards[g].kind = "r")
    => ENABLED GuardCtor(t)

\* two read guards are live on one frame (the state C5 says can be reached)
TwoReadersLive ==
  \E g, h \in GuardIds :
    /\ g # h
    /\ guards[g].is_valid /\ guards[h].is_valid
    /\ guards[g].kind = "r" /\ guards[h].kind = "r"
    /\ guards[g].frame = guards[h].frame
NoTwoReadersLive == ~TwoReadersLive

\* thread t gets its guard in this step (GuardCtor)
GetsGuard(t) == pc[t] = "ctor" /\ pc'[t] = "idle"

\* C6: when bytes B were stored through a write guard on page p, p was
\* evicted after that, and p was neither deleted nor stored to since, a read
\* guard on p obtained afterwards (no write guard on p being live) sees B.
C6_RoundTripThroughEviction ==
  [][\A t \in Threads :
       (/\ GetsGuard(t) /\ op[t] = "r"
        /\ rt[page[t]].st = "e"
        /\ \A g \in GuardIds :
             guards[g].is_valid /\ guards[g].kind = "w" => guards[g].page_id # page[t])
       => data'[frame[t]] = rt[page[t]].b]_vars

\* every frame is pinned by a live guard
AllFramesPinned == \A f \in Frames : LiveOn(f) # {}

\* C7: a CheckedReadPage / CheckedWritePage for a page that is not resident,
\* called while every frame is pinned by a live guard, returns nullopt,
\* leaves the page table, the free list and every frame's bytes, pin count
\* and dirty flag as they were, and schedules no disk request.
C7_OutOfMemoryReported ==
  [][\A t \in Threads, k \in {"r", "w"}, p \in Pages :
       (AllFramesPinned /\ ~Resident(p) /\ CheckedPageBegin(t, k, p))
       => /\ ret' = "nullopt"
          /\ UNCHANGED <<page_table, free_frames, data, pin_count, is_dirty,
                         request_queue>>]_vars

\* C8: DeletePage(p) returns false exactly when p is resident with a pin
\* count above 0, and then changes nothing; it returns true when p is not
\* resident, and when p is resident and no live guard is left on it.
C8_DeletePageResult ==
  [][\A t \in Threads, p \in Pages :
       DeletePage(t, p)
       => /\ ret' = "delete_false" <=> (Resident(p) /\ pin_count[page_table[p]] # 0)
          /\ ret' = "delete_false"
               => UNCHANGED <<page_table, free_frames, data, is_dirty, pin_count,
                              disk, request_queue>>
          /\ ~Resident(p) => ret' = "delete_true"
          /\ (Resident(p) /\ LiveOn(page_table[p]) = {}) => ret' = "delete_true"]_vars

\* C9: DeletePage(p) of a resident, unpinned, dirty page writes the frame's
\* bytes to page p on disk before it resets the frame, removes the page
\* table entry and puts the frame on the free list.
C9_DeleteFlushesDirty ==
  [][\A t \in Threads, p \in Pages :
       (/\ Resident(p)
        /\ pin_count[page_table[p]] = 0
        /\ is_dirty[page_table[p]]
        /\ DeletePage(t, p))
       => /\ disk'[p] = data[page_table[p]]
          /\ page_table'[p] = NoFrame
          /\ free_frames' = Append(free_frames, page_table[p])]_vars

\* the write request FlushPage(p) of thread t puts on the queue
FlushRequest(t, p) ==
  [is_write |-> TRUE, frame |-> page_table[p], page_id |-> p, t |-> t]

\* the requests of thread t that the worker has not served yet
PendingOf(t) ==
  {i \in 1 .. Len(request_queue) : request_queue[i].t = t}

C11_FlushTrueIffResident ==
  [][\A t \in Threads, p \in Pages :
       FlushPageBegin(t, p) => (ret' = "flush_false" <=> ~Resident(p))]_vars

\* this step puts a read of page p on the disk queue
SchedulesRead(p) ==
  /\ Len(request_queue') = Len(request_queue) + 1
  /\ ~request_queue'[Len(request_queue')].is_write
  /\ request_queue'[Len(request_queue')].page_id = p

\* thread u is inside a miss on page p: its read of p is scheduled or about
\* to be, and it has not reached the guard constructor
InMissOn(u, p) == pc[u] \in {"wait_flush", "wait_read"} /\ page[u] = p

\* C12: concurrent CheckedReadPage / CheckedWritePage calls for one missing
\* page cause one disk read: a read of p is scheduled only when p is not in
\* the page table and no other caller is inside a miss on p, the entry of p
\* is installed in the step that schedules the read, and a caller that finds
\* the entry schedules nothing and goes on with the frame of the entry.
C12_OneReadPerMiss ==
  [][\A p \in Pages :
       /\ SchedulesRead(p)
            => LET r == request_queue'[Len(request_queue')] IN
               /\ ~Resident(p)
               /\ page_table'[p] = r.frame
               /\ \A u \in Threads \ {r.t} : ~InMissOn(u, p)
       /\ \A t \in Threads, k \in {"r", "w"} :
            (Resident(p) /\ CheckedPageBegin(t, k, p))
            => /\ UNCHANGED <<request_queue, page_table>>
               /\ pc'[t] = "ctor"
               /\ frame'[t] = page_table[p]]_vars

\* sequence a is an initial part of sequence b
IsPrefix(a, b) == Len(a) <= Len(b) /\ a = SubSeq(b, 1, Len(a))

\* C13: the worker performs the requests in the order in which they were
\* scheduled, and fires each request's completion once, with true, only
\* after the request's read or write on the disk manager has finished.
C13_WorkerFifo ==
  /\ IsPrefix(log.perf, log.sched)
  /\ IsPrefix(log.fired, log.perf)
  /\ Len(log.perf) <= Len(log.fired) + 1
  /\ worker.pc = "io"
       => /\ ~done[worker.req.t]
          /\ Len(log.perf) = Len(log.fired)
          /\ worker.req = log.sched[Len(log.perf) + 1]
  /\ worker.pc = "set"
       => /\ ~done[worker.req.t]
          /\ Len(log.perf) = Len(log.fired) + 1
          /\ worker.req = log.perf[Len(log.perf)]
  /\ \A t \in Threads :
       done[t] => \E i \in 1 .. Len(log.fired) : log.fired[i].t = t

\* two requests of different threads went through the worker one after the
\* other
C13_Witness ==
  /\ Len(log.fired) >= 2
  /\ log.fired[1].t # log.fired[2].t
  /\ Len(request_queue) >= 1

\* every request scheduled before the sentinel was performed and completed
Drained == Len(log.fired) >= log.cut /\ Len(log.perf) >= log.cut

\* C14: once the destructor has queued the sentinel, the worker performs and
\* completes every request scheduled before it, then leaves its loop, and
\* the destructor's join returns.
C14_ShutdownDrains ==
  /\ [](worker.pc = "exited" => Drained)
  /\ [](dtor = "done" => worker.pc = "exited")
  /\ (dtor = "joining") ~> (dtor = "done" /\ Drained)

\* the sentinel is queued behind two requests that are still to be served
C14_Witness ==
  /\ dtor = "joining"
  /\ Len(request_queue) = 3
  /\ request_queue[3] = Sentinel
  /\ worker.pc = "get"

\* NewPage returns to thread t in this step; the id it returns is page[t]
NewPageReturns(t) == pc[t] = "np" /\ pc'[t] = "idle"

\* C15: NewPage returns 0 on the first call and on every later call an id
\* larger than every id returned before, and it leaves the page table, the
\* free list and every frame as they were.
C15_NewPageFreshId ==
  [][\A t \in Threads :
       /\ NewPageReturns(t)
            => /\ issued = {} => page[t] = 0
               /\ \A i \in issued : page[t] > i
               /\ UNCHANGED <<page_table, free_frames, data, pin_count, is_dirty>>
       /\ (pc[t] = "idle" /\ pc'[t] = "np")
            => UNCHANGED <<page_table, free_frames, data, pin_count, is_dirty>>]_vars

\* after the step dst holds what src held and src is invalid; a frame that
\* src guarded is now guarded by dst alone
MovedTo(src, dst) ==
  /\ guards'[dst] = guards[src]
  /\ ~guards'[src].is_valid
  /\ guards[src].is_valid
       => {g \in GuardIds : /\ guards'[g].is_valid
                            /\ guards'[g].frame = guards[src].frame} = {dst}

C17_DropOnce ==
  [][\A t \in Threads :
       /\ \A g \in GuardIds :
            /\ DropBegin(t, g)
                 => LET f == guards[g].frame IN
                    /\ rwlatch[f]
                    /\ rwlatch' = [rwlatch EXCEPT ![f] = FALSE]
                    /\ pin_count' = [pin_count EXCEPT ![f] = @ - 1]
                    /\ guards' = [guards EXCEPT ![g] = NoGuard]
                    /\ evictable' = evictable
            /\ DropInvalid(t, g)
                 => UNCHANGED <<poolVars, bpm_latch, frameVars, rwlatch,
                                evictable, diskVars, guards>>
       /\ (pc[t] = "drop_test" /\ pc'[t] = "drop_test")
            => pin_count'[frame[t]] = pin_count[frame[t]]
       /\ DropTest(t)
            => /\ UNCHANGED <<pin_count, rwlatch, evictable>>
               /\ pc'[t] = "drop_se" <=> pin_count[frame[t]] = 0
       /\ DropSetEvictable(t)
            => /\ evictable' = [evictable EXCEPT ![frame[t]] = TRUE]
               /\ UNCHANGED <<pin_count, rwlatch>>]_vars

\* the frames on the free list
FreeFrames == {free_frames[i] : i \in 1 .. Len(free_frames)}

\* C18: every frame on the free list has pin count 0, is clean, is the frame
\* of no page in the page table and is referenced by no valid guard.
C18_FreeFramesClean ==
  \A f \in FreeFrames :
    /\ pin_count[f] = 0
    /\ ~is_dirty[f]
    /\ FindPage(f) = {}
    /\ LiveOn(f) = {}

\* the pages that have an entry in the page table
PageMap == {p \in Pages : Resident(p)}

\* C19: the entries of the page table and the frames of the free list are
\* together never more than the frames of the pool.
C19_EntriesPlusFree == Cardinality(PageMap) + Len(free_frames) <= NumFrames

\* C20: CheckedReadPage/CheckedWritePage of a page that is in the page table
\* schedules no disk request, leaves the disk, the page table, the free list
\* and the frames' bytes as they are and goes on to latch the frame the page
\* table names; the guard constructor that follows also does none of these,
\* and the guard it returns is on that frame, whose bytes it reads.
C20_HitNoIO ==
  [][\A t \in Threads :
       /\ \A k \in {"r", "w"}, p \in Pages :
            (Resident(p) /\ CheckedPageBegin(t, k, p))
              => /\ UNCHANGED <<request_queue, disk, page_table, free_frames,
                                data>>
                 /\ pc'[t] = "ctor"
                 /\ frame'[t] = page_table[p]
       /\ GetsGuard(t)
            => /\ UNCHANGED <<request_queue, disk, page_table, free_frames,
                              data>>
               /\ \E g \in GuardIds :
                    /\ ~guards[g].is_valid
                    /\ guards'[g].is_valid
                    /\ guards'[g].owner = t
                    /\ guards'[g].frame = frame[t]]_vars

\* a caller found its page in the page table and waits in the guard
\* constructor for the frame that another thread's write guard holds, with
\* nothing on the disk queue
C20_Witness ==
  \E t \in Threads, g \in GuardIds :
    /\ pc[t] = "ctor"
    /\ Resident(page[t])
    /\ page_table[page[t]] = frame[t]
    /\ guards[g].is_valid
    /\ guards[g].owner # t
    /\ guards[g].kind = "w"
    /\ guards[g].page_id = page[t]
    /\ guards[g].frame = frame[t]
    /\ pin_count[frame[t]] = 1
    /\ request_queue = <<>>

\* C21: every step of a manager operation that reads or updates the page
\* table or the free list after the operation's entry (FlushPage's lookup, the
\* eviction's erase and insert), and every SetEvictable of a guard's Drop, is
\* taken by a thread that holds the pool latch.
C21_PoolLatchHeld ==
  [][\A t \in Threads :
       /\ (\E p \in Pages : FlushPageBegin(t, p)) => bpm_latch = t
       /\ EvictFlushDone(t) => bpm_latch = t
       /\ DropSetEvictable(t) => bpm_latch = t]_vars

\* the request at place j of the disk queue is a read of a page of which a
\* write is queued ahead of it
ReadBehindWrite(j) ==
  /\ ~request_queue[j].is_write
  /\ \E i \in 1 .. (j - 1) :
       /\ request_queue[i].is_write
       /\ request_queue[i].page_id = request_queue[j].page_id

\* C22: no read of a page is on the disk queue behind a write of that page
\* that has not completed.
C22_NoReadBehindWrite ==
  \A j \in 1 .. Len(request_queue) : ~ReadBehindWrite(j)

\* thread t's call for the missing page p takes a victim in this step
EvictsFor(t, k, p) ==
  /\ Missing(p)
  /\ free_frames = <<>>
  /\ CheckedPageBegin(t, k, p)
  /\ pc'[t] # "idle"

\* in this step exactly one read of page p into frame f is put on the queue,
\* the entry of the victim's page v goes, p is mapped to f and f is clean
InstalledFor(t, p, f, v) ==
  /\ request_queue' = Append(request_queue,
        [is_write |-> FALSE, frame |-> f, page_id |-> p, t |-> t])
  /\ page_table'[v] = NoFrame
  /\ page_table'[p] = f
  /\ ~is_dirty'[f]

\* C23: a miss with an empty free list takes an evictable frame f that holds
\* a page v.  When f is dirty it schedules exactly one write of f to v and
\* nothing else, and goes on only when that write is served; when f is clean
\* it schedules no write.  Then it schedules exactly one read of the wanted
\* page into f, removes the entry of v, maps the page to f and leaves f clean.
C23_EvictionSteps ==
  [][\A t \in Threads :
       /\ \A k \in {"r", "w"}, p \in Pages :
            EvictsFor(t, k, p)
              => /\ evictable[frame'[t]]
                 /\ page_table[evpage'[t]] = frame'[t]
                 /\ IF is_dirty[frame'[t]]
                    THEN /\ request_queue' = Append(request_queue,
                               [is_write |-> TRUE, frame |-> frame'[t],
                                page_id |-> evpage'[t], t |-> t])
                         /\ pc'[t] = "wait_flush"
                         /\ UNCHANGED <<page_table, is_dirty>>
                    ELSE InstalledFor(t, p, frame'[t], evpage'[t])
       /\ EvictFlushDone(t)
            => /\ PendingOf(t) = {}
               /\ InstalledFor(t, page[t], frame[t], evpage[t])]_vars

\* a dirty victim was written back (its page's bytes on disk are no longer
\* the initial ones), its entry is gone and the read of the wanted page
\* into the frame is the one request on the queue
C23_Witness ==
  \E t \in Threads :
    /\ pc[t] = "wait_read"
    /\ evpage[t] # NoPage
    /\ disk[evpage[t]] # 0
    /\ ~Resident(evpage[t])
    /\ page_table[page[t]] = frame[t]
    /\ ~is_dirty[frame[t]]
    /\ request_queue = <<[is_write |-> FALSE, frame |-> frame[t],
                          page_id |-> page[t], t |-> t]>>

UnlocksPool(t) ==
  \/ GuardCtor(t)
  \/ NewPageFetchAdd(t)
  \/ ReadDone(t) /\ ~AcquireRWLock(frame[t])

\* the threads between the lock of the pool latch and its release in
\* NewPage and in the miss path of CheckedReadPage / CheckedWritePage
InCritical == {t \in Threads : pc[t] \in {"np", "wait_flush", "wait_read"}}

\* C25: a thread unlocks the pool latch only while it holds it, and at most
\* one thread is inside a critical section of the pool latch.
C25_LatchDiscipline ==
  /\ [][\A t \in Threads : UnlocksPool(t) => bpm_latch = t]_vars
  /\ [](Cardinality(InCritical) <= 1)

\* C26: from the lookup of the page table to the Drop of the guard, the page
\* table maps the guard's page to the guard's frame: this holds for every
\* valid guard and for every caller that is in the guard constructor.
C26_GuardBoundToPage ==
  /\ \A g \in GuardIds :
       guards[g].is_valid => page_table[guards[g].page_id] = guards[g].frame
  /\ \A t \in Threads :
       pc[t] = "ctor" => page_table[page[t]] = frame[t]

\* a read into frame f is on the disk queue: the frame is being loaded
Loading(f) ==
  \E i \in 1 .. Len(request_queue) :
    ~request_queue[i].is_write /\ request_queue[i].frame = f

\* C27: a frame that holds a page and is not being loaded, and whose bytes
\* differ from the bytes on disk for that page, is dirty.
C27_DirtyNeverUnderReports ==
  \A p \in Pages :
    (/\ Resident(p)
     /\ ~Loading(page_table[p])
     /\ data[page_table[p]] # disk[p])
    => is_dirty[page_table[p]]

\* how many times frame f is on the free list
TimesFree(f) == Cardinality({i \in 1 .. Len(free_frames) : free_frames[i] = f})

\* C28: every frame is either on the free list exactly once or the frame of
\* exactly one page of the page table, and never both.
C28_FramesPartitioned ==
  \A f \in Frames : TimesFree(f) + Cardinality(FindPage(f)) = 1

====
